---- MODULE Spec2Model ----
(***************************************************************************)
(* A model of ptypes/dynamic.py: the descriptor factories (block, ...) and *)
(* the dynamic.union overlay (a root storage object plus aliased views     *)
(* that read the root through provider.proxy at local offset zero).        *)
(*                                                                         *)
(* Names are sequences of character codes so that str.lower() is computed. *)
(* Bytes are integers 0..255.  None is modelled per attribute: an empty    *)
(* sequence for union.value, a flag for __object__, None_t for _value_.    *)
(***************************************************************************)
EXTENDS Integers, Sequences, FiniteSets, TLC

(* ------------------------------ bounds --------------------------------- *)
\* the longest _fields_ list a declared union has
MaxFields == 2
\* the length of the byte string behind provider.string
SrcLen == 4
\* the largest offset given to setposition or to load(offset=...)
MaxOffset == 1
\* the number of records the log keeps
MaxLog == 2
\* the largest magnitude of an integer argument given to a factory
MaxSize == 4

(* ------------------------------ names ---------------------------------- *)
\* str.lower() of one character code
LowerChar(c) == IF c \in 65..90 THEN c + 32 ELSE c
\* str.lower()
Lower(s) == [i \in DOMAIN s |-> LowerChar(s[i])]

n_block == <<98, 108, 111, 99, 107>>
n_int == <<105, 110, 116>>
n_a == <<97>>
n_b == <<98>>
n_c == <<99>>
n_A == <<65>>
n_s == <<115>>
n_zz == <<122, 122>>

(* ------------------------------ values --------------------------------- *)
\* the arguments a caller may hand to a factory as ``size``
IntArg(n) == [tag |-> "int", v |-> n]
FloatArg == [tag |-> "float", v |-> 1]
StrArg == [tag |-> "str", v |-> 4]
NoneArg == [tag |-> "NoneType", v |-> 0]
BoolArg == [tag |-> "bool", v |-> 1]
SizeArgs == {IntArg(n) : n \in (0 - MaxSize)..MaxSize} \cup {FloatArg, StrArg, NoneArg, BoolArg}

\* isinstance(x, six.integer_types): int, long and their subclass bool
IsIntegral(x) == x.tag \in {"int", "bool"}

(* ------------------------------ types ---------------------------------- *)
\* _value_ = None
None_t == [kind |-> "None", length |-> 0, count |-> 0]
\* ptype.clone(ptype.block, length=n)
BlockType(n) == [kind |-> "block", length |-> n, count |-> 1]
uint8_t == [kind |-> "pint", length |-> 1, count |-> 1]
uint16_t == [kind |-> "pint", length |-> 2, count |-> 1]
uint32_t == [kind |-> "pint", length |-> 4, count |-> 1]
\* a one-byte field type whose decoder raises error.UserError on a byte other than 0
strict_t == [kind |-> "strict", length |-> 1, count |-> 1]
\* parray.type of ``n`` elements of ``t``
ArrayType(t, n) == [kind |-> "array", length |-> t.length, count |-> n]

\* type.blocksize() of an instance of t
TypeBlockSize(t) == t.length * t.count

RECURSIVE Zeros(_)
Zeros(n) == IF n <= 0 THEN <<>> ELSE <<0>> \o Zeros(n - 1)

\* max() of a non-empty collection of integers
SetMax(S) == CHOOSE x \in S : \A y \in S : y <= x

(* ------------------------------ state ---------------------------------- *)
VARIABLES
  _fields_,     \* union._fields_: the declared aliases, a list of [type, name]
  _value_,      \* union._value_: the declared root type, None_t when absent
  source,       \* the bytes behind the union's source (provider.string)
  offset,       \* the union's own offset
  value,        \* union.value: <<>> for None, else the list <<root>>
  __object__,   \* union.__object__: [isNone, list of alias instances]
  fastindex,    \* _union_generic.__fastindex: lower-cased name -> index
  discarded,    \* instances made by __choose__ only to be measured
  ret,          \* the outcome of the last call
  log,          \* the records handed to Log
  Config        \* config.defaults: parray.max_count, parray.break_on_max_count, the byte order

vars == <<_fields_, _value_, source, offset, value, __object__, fastindex, discarded, ret, log, Config>>

\* the configuration the module is imported with: no limit on array counts
Defaults == [max_count |-> 0, break_on_max_count |-> FALSE, byteorder |-> "bigendian"]

(* ------------------------- the factory: block -------------------------- *)
\* one record handed to Log.error / Log.warning
LogRec(level, who, arg) == [level |-> level, who |-> who, arg |-> arg]

\* what a factory call gives back: an exception or a type, and what it logged
Raised(e) == [exc |-> e, val |-> None_t, logged |-> <<>>]
Returned(t, l) == [exc |-> "", val |-> t, logged |-> l]

\* a block that hands a negative size on instead of defaulting to 0
block_unclamped(size) ==
  IF ~IsIntegral(size)
    THEN Raised("UserError")
    ELSE Returned(BlockType(size.v),
                  IF size.v < 0 THEN <<LogRec("error", "block", size.v)>> ELSE <<>>)

\* dynamic.block
block(size) ==
  IF ~IsIntegral(size)
    THEN Raised("UserError")
    ELSE LET neg == size.v < 0
             sz == IF neg THEN 0 ELSE size.v
         IN Returned(BlockType(sz),
                     IF neg THEN <<LogRec("error", "block", size.v)>> ELSE <<>>)

(* ---------------------- the factory: blockarray ------------------------ *)
\* the class blockarray(parray.block) of elements ``t`` whose blocksize() is ``size``
BlockArrayType(t, size) == [kind |-> "blockarray", length |-> size, count |-> 1, element |-> t]

\* a blockarray as long as the whole elements that fit into ``size``
blockarray_by_elements(type, size) ==
  IF ~IsIntegral(size)
    THEN Raised("UserError")
    ELSE LET neg == size.v < 0
             sz == IF neg THEN 0 ELSE size.v
         IN Returned(BlockArrayType(type, (sz \div type.length) * type.length),
                     IF neg THEN <<LogRec("error", "blockarray", size.v)>> ELSE <<>>)

\* dynamic.blockarray
blockarray(type, size) ==
  IF ~IsIntegral(size)
    THEN Raised("UserError")
    ELSE LET neg == size.v < 0
             sz == IF neg THEN 0 ELSE size.v
         IN Returned(BlockArrayType(type, sz),
                     IF neg THEN <<LogRec("error", "blockarray", size.v)>> ELSE <<>>)

(* ------------------------ the factory: array --------------------------- *)
\* int(count) of the built-in: FloatArg stands for 1.5 and StrArg for '4', whose
\* v is the integer int() makes of them; int(None) raises TypeError
int(count) ==
  IF count.tag = "NoneType"
    THEN [exc |-> "TypeError", v |-> 0]
    ELSE [exc |-> "", v |-> count.v]

\* what dynamic.array logs and gives back once the count is 0 or more
array_guarded(type, n, l) ==
  IF Config.max_count > 0 /\ n > Config.max_count
    THEN IF Config.break_on_max_count
           THEN [exc |-> "UserError", val |-> None_t,
                 logged |-> Append(l, LogRec("fatal", "dynamic.array", n))]
           ELSE Returned(ArrayType(type, n), Append(l, LogRec("warning", "dynamic.array", n)))
    ELSE Returned(ArrayType(type, n), l)

\* an array that hands a negative count on instead of defaulting to 0
array_unclamped(type, count) ==
  LET c == int(count)
  IN IF c.exc # "" THEN Raised(c.exc)
     ELSE IF ~IsIntegral(IntArg(c.v)) THEN Raised("UserError")
     ELSE Returned(ArrayType(type, c.v),
                   IF c.v < 0 THEN <<LogRec("error", "dynamic.array", c.v)>> ELSE <<>>)

\* an array that only ever warns about a count above max_count
array_never_breaks(type, count) ==
  LET c == int(count)
  IN IF c.exc # "" THEN Raised(c.exc)
     ELSE IF ~IsIntegral(IntArg(c.v)) THEN Raised("UserError")
     ELSE LET neg == c.v < 0
              n == IF neg THEN 0 ELSE c.v
              l == IF neg THEN <<LogRec("error", "dynamic.array", c.v)>> ELSE <<>>
          IN IF Config.max_count > 0 /\ n > Config.max_count
               THEN Returned(ArrayType(type, n), Append(l, LogRec("warning", "dynamic.array", n)))
               ELSE Returned(ArrayType(type, n), l)

\* dynamic.array: the count is converted by int() before it is looked at, so
\* the isinstance test that follows always passes
array(type, count) ==
  LET c == int(count)
  IN IF c.exc # "" THEN Raised(c.exc)
     ELSE IF ~IsIntegral(IntArg(c.v)) THEN Raised("UserError")
     ELSE LET neg == c.v < 0
              n == IF neg THEN 0 ELSE c.v
              l == IF neg THEN <<LogRec("error", "dynamic.array", c.v)>> ELSE <<>>
          IN array_guarded(type, n, l)

(* ------------------------- instances (ptype) --------------------------- *)
\* self.new(t, __name__=name, offset=off): a fresh, uninitialized instance
New(t, name, off) == [type |-> t, name |-> name, offset |-> off, init |-> FALSE, data |-> <<>>]

\* keyword attributes of load/alloc/commit: nothing, or a temporary offset
NoAttrs == [hasOffset |-> FALSE, offset |-> 0]
Attrs == {NoAttrs, [hasOffset |-> TRUE, offset |-> MaxOffset]}

\* the offset an instance works at during a call made with attrs
EffOffset(inst, attrs) == IF attrs.hasOffset THEN attrs.offset ELSE inst.offset

\* __deserialize_block__ of an instance: a strict_t rejects a non-zero byte
Deserialize(inst, bytes) ==
  IF inst.type.kind = "strict" /\ bytes # <<>> /\ bytes[1] # 0
    THEN [exc |-> "UserError", inst |-> inst]
    ELSE [exc |-> "", inst |-> [inst EXCEPT !.init = TRUE, !.data = bytes]]

\* inst.load(**attrs) from the bytes of ``src``
TypeLoad(inst, attrs, src) ==
  LET o == EffOffset(inst, attrs)
      n == TypeBlockSize(inst.type)
  IN IF o + n <= Len(src)
       THEN Deserialize(inst, SubSeq(src, o + 1, o + n))
       ELSE [exc |-> "LoadError", inst |-> inst]

\* inst.alloc(**attrs): zero bytes of the type's blocksize
TypeAlloc(inst, attrs) ==
  [exc |-> "", inst |-> [inst EXCEPT !.init = TRUE, !.data = Zeros(TypeBlockSize(inst.type))]]

\* inst.serialize(): the bytes of an initialized instance
TypeSerialize(inst) ==
  IF ~inst.init
    THEN [exc |-> "InitializationError", data |-> <<>>]
    ELSE [exc |-> "", data |-> inst.data]

\* inst.size() and inst.blocksize()
InstSize(inst) == IF inst.init THEN Len(inst.data) ELSE 0
InstBlockSize(inst) == TypeBlockSize(inst.type)

\* len(inst) and inst[i] of a loaded array: the element-sized slices of its bytes
Elements(inst) ==
  LET w == IF inst.type.kind = "blockarray" THEN inst.type.element.length ELSE inst.type.length
      n == IF inst.type.kind = "blockarray" THEN Len(inst.data) \div w ELSE inst.type.count
  IN IF ~inst.init THEN <<>> ELSE [i \in 1..n |-> SubSeq(inst.data, (i - 1) * w + 1, i * w)]

\* alias.load(offset=0) with source=provider.proxy(root)
ProxyLoad(alias, root) ==
  IF ~root.init
    THEN [exc |-> "InitializationError", inst |-> alias]
    ELSE TypeLoad(alias, [hasOffset |-> TRUE, offset |-> 0], root.data)

\* inst.commit(**attrs): the source after storing the instance's bytes
TypeCommit(inst, attrs, src) ==
  LET o == EffOffset(inst, attrs)
      n == Len(inst.data)
  IN IF ~inst.init THEN [exc |-> "InitializationError", src |-> src]
     ELSE IF o + n > Len(src) THEN [exc |-> "CommitError", src |-> src]
     ELSE [exc |-> "", src |-> [i \in DOMAIN src |-> IF i > o /\ i <= o + n THEN inst.data[i - o] ELSE src[i]]]

(* ------------------------------ union ---------------------------------- *)
\* an event of a call: what was done, and to which alias (0: the root or none)
Ev(what, i) == [what |-> what, i |-> i]

\* the union as a call finds it; a handler answers with this record changed
Cur ==
  [exc |-> "", val |-> 0, data |-> <<>>, logged |-> <<>>, trace |-> <<>>,
   value |-> value, object |-> __object__, index |-> fastindex,
   discarded |-> discarded, source |-> source, offset |-> offset]

\* the handler raised e: nothing more of it runs
Raise(o, e) == [o EXCEPT !.exc = e]

\* an __append__ that keeps the index a name already has
append_first_wins(st, object) ==
  LET name == object.name
      current == Len(st.list)
  IN [list |-> Append(st.list, object),
      index |-> [k \in DOMAIN st.index \cup {Lower(name)} |->
                   IF k \in DOMAIN st.index THEN st.index[k] ELSE current]]

\* _union_generic.__append__ on the list and the index built so far
__append__(st, object) ==
  LET name == object.name
      current == Len(st.list)
  IN [list |-> Append(st.list, object),
      index |-> [k \in DOMAIN st.index \cup {Lower(name)} |->
                   IF k = Lower(name) THEN current ELSE st.index[k]]]

\* a root sized by the first declared field instead of the largest
choose_first(objects) ==
  LET res == _value_
  IN IF res = None_t
       THEN IF objects = <<>>
              THEN [exc |-> "ValueError", val |-> None_t, made |-> 0]
              ELSE [exc |-> "", made |-> 1, val |-> BlockType(TypeBlockSize(objects[1]))]
       ELSE [exc |-> "", val |-> res, made |-> 0]

\* a __choose__ whose max() of nothing is 0: a union without fields gets an empty block
choose_empty_block(objects) ==
  LET res == _value_
  IN IF res = None_t
       THEN IF objects = <<>>
              THEN [exc |-> "", val |-> BlockType(0), made |-> 0]
              ELSE [exc |-> "", made |-> Len(objects),
                    val |-> BlockType(SetMax({TypeBlockSize(objects[i]) : i \in DOMAIN objects}))]
       ELSE [exc |-> "", val |-> res, made |-> 0]

\* union.__choose__: the root type, or the failure of max() of nothing
__choose__(objects) ==
  LET res == _value_
  IN IF res = None_t
       THEN IF objects = <<>>
              THEN [exc |-> "ValueError", val |-> None_t, made |-> 0]
              ELSE [exc |-> "", made |-> Len(objects),
                    val |-> BlockType(SetMax({TypeBlockSize(objects[i]) : i \in DOMAIN objects}))]
       ELSE [exc |-> "", val |-> res, made |-> 0]

\* the loop of union.__create__ over _fields_ from position i
RECURSIVE CreateAliases(_, _)
CreateAliases(st, i) ==
  IF i > Len(_fields_)
    THEN st
    ELSE CreateAliases(__append__(st, New(_fields_[i].type, _fields_[i].name, 0)), i + 1)

\* a __create__ that makes the root and registers no alias
create_root_only(o) ==
  LET t == __choose__([i \in DOMAIN _fields_ |-> _fields_[i].type])
  IN IF t.exc # ""
       THEN Raise(o, t.exc)
       ELSE [o EXCEPT !.value = <<New(t.val, <<>>, o.offset)>>,
                      !.object = [isNone |-> FALSE, list |-> <<>>],
                      !.discarded = o.discarded + t.made,
                      !.trace = Append(o.trace, Ev("create", 0))]

\* a __create__ that keeps the instances __choose__ measured at the head of the list
create_keeps_measured(o) ==
  LET t == __choose__([i \in DOMAIN _fields_ |-> _fields_[i].type])
  IN IF t.exc # ""
       THEN Raise(o, t.exc)
       ELSE LET res == New(t.val, <<>>, o.offset)
                measured == [i \in 1..t.made |-> New(_fields_[i].type, <<>>, 0)]
                st == CreateAliases([list |-> measured, index |-> o.index], 1)
            IN [o EXCEPT !.value = <<res>>,
                         !.object = [isNone |-> FALSE, list |-> st.list],
                         !.index = st.index,
                         !.discarded = o.discarded + t.made,
                         !.trace = Append(o.trace, Ev("create", 0))]

\* union.__create__
__create__(o) ==
  LET t == __choose__([i \in DOMAIN _fields_ |-> _fields_[i].type])
  IN IF t.exc # ""
       THEN Raise(o, t.exc)
       ELSE LET res == New(t.val, <<>>, o.offset)
                st == CreateAliases([list |-> <<>>, index |-> o.index], 1)
            IN [o EXCEPT !.value = <<res>>,
                         !.object = [isNone |-> FALSE, list |-> st.list],
                         !.index = st.index,
                         !.discarded = o.discarded + t.made,
                         !.trace = Append(o.trace, Ev("create", 0))]

\* an object that chooses the root and makes the aliases anew on every use
object_recreates(o) == __create__(o)

\* ``self.__create__() if self.value is None else self.value[0]``, also union.object
object(o) == IF o.value = <<>> THEN __create__(o) ELSE o

\* a map that is never run: no alias is loaded
MapLoadLazy(o, i) == o

\* map(operator.methodcaller('load', offset=0), self.__object__) from alias i on
RECURSIVE MapLoad(_, _)
MapLoad(o, i) ==
  IF i > Len(o.object.list)
    THEN o
    ELSE LET r == ProxyLoad(o.object.list[i], o.value[1])
             t == Append(o.trace, Ev("alias.load", i))
         IN IF r.exc # ""
              THEN Raise([o EXCEPT !.trace = t], r.exc)
              ELSE MapLoad([o EXCEPT !.trace = t, !.object.list[i] = r.inst], i + 1)

\* union.load
load(attrs) ==
  LET c == object(Cur)
  IN IF c.exc # "" THEN c
     ELSE LET r == TypeLoad(c.value[1], attrs, c.source)
              d == [c EXCEPT !.value = <<r.inst>>, !.trace = Append(c.trace, Ev("root.load", 0))]
          IN IF r.exc # "" THEN Raise(d, r.exc) ELSE MapLoad(d, 1)

\* union.alloc
alloc(attrs) ==
  LET c == object(Cur)
  IN IF c.exc # "" THEN c
     ELSE LET r == TypeAlloc(c.value[1], attrs)
              d == [c EXCEPT !.value = <<r.inst>>, !.trace = Append(c.trace, Ev("root.alloc", 0))]
          IN IF r.exc # "" THEN Raise(d, r.exc) ELSE MapLoad(d, 1)

\* a commit that goes on to reload the aliases, as load does
commit_and_reload(attrs) ==
  LET c == object(Cur)
  IN IF c.exc # "" THEN c
     ELSE LET r == TypeCommit(c.value[1], attrs, c.source)
              d == [c EXCEPT !.source = r.src, !.trace = Append(c.trace, Ev("root.commit", 0))]
          IN IF r.exc # "" THEN Raise(d, r.exc) ELSE MapLoad(d, 1)

\* union.commit
commit(attrs) ==
  LET c == object(Cur)
  IN IF c.exc # "" THEN c
     ELSE LET r == TypeCommit(c.value[1], attrs, c.source)
              d == [c EXCEPT !.source = r.src, !.trace = Append(c.trace, Ev("root.commit", 0))]
          IN IF r.exc # "" THEN Raise(d, r.exc) ELSE d

\* union.blocksize
blocksize ==
  LET c == object(Cur)
  IN IF c.exc # "" THEN c ELSE [c EXCEPT !.val = InstBlockSize(c.value[1])]

\* a size() that asks the first alias instead of the root
size_of_alias ==
  LET c == object(Cur)
  IN IF c.exc # "" THEN c
     ELSE [c EXCEPT !.val = IF c.object.list = <<>> THEN InstSize(c.value[1])
                             ELSE InstSize(c.object.list[1])]

\* union.size
size ==
  LET c == object(Cur)
  IN IF c.exc # "" THEN c ELSE [c EXCEPT !.val = InstSize(c.value[1])]

\* zip(a, b) of two lists: as long as the shorter of them
zip(a, b) ==
  [i \in 1..(IF Len(a) < Len(b) THEN Len(a) ELSE Len(b)) |-> <<a[i], b[i]>>]

\* _union_generic.items over __items__: the pairs (name, alias) of zip(_fields_, __object__)
items ==
  LET z == zip(_fields_, __object__.list)
  IN [i \in DOMAIN z |-> <<z[i][1].name, z[i][2]>>]

\* union.initializedQ
initializedQ ==
  /\ value # <<>> /\ value[1].init
  /\ ~__object__.isNone /\ Len(__object__.list) = Len(_fields_)

\* _union_generic.__getindex__: the index, or -1 for the KeyError
__getindex__(name) ==
  IF Lower(name) \in DOMAIN fastindex THEN fastindex[Lower(name)] ELSE 0 - 1

\* ``result.li`` of union.__getitem__ with its except clause
LoadIfNeeded(o, index) ==
  LET result == o.object.list[index + 1]
  IN IF result.init THEN o
     ELSE LET r == ProxyLoad(result, o.value[1])
              d == [o EXCEPT !.trace = Append(o.trace, Ev("alias.load", index + 1))]
          IN IF r.exc = "" THEN [d EXCEPT !.object.list[index + 1] = r.inst]
             ELSE IF r.exc = "UserError"
               THEN [d EXCEPT !.logged = Append(d.logged, LogRec("warning", "union.__getitem__", index))]
             ELSE Raise(d, r.exc)

\* union.__getitem__
__getitem__(key) ==
  LET index == __getindex__(key)
  IN IF index < 0 THEN Raise(Cur, "KeyError")
     ELSE LoadIfNeeded([Cur EXCEPT !.val = index], index)

\* a setposition that moves the union and leaves the root where it was
setposition_self_only(off) == [Cur EXCEPT !.offset = off]

\* union.setposition
setposition(off) ==
  LET d == IF value # <<>>
             THEN [Cur EXCEPT !.value[1].offset = off, !.trace = <<Ev("root.setposition", 0)>>]
             ELSE Cur
  IN [d EXCEPT !.offset = off]

\* a serialize() that goes through union.object, as size() does
serialize_by_object ==
  LET c == object(Cur)
  IN IF c.exc # "" THEN c
     ELSE LET r == TypeSerialize(c.value[1])
              d == [c EXCEPT !.trace = Append(c.trace, Ev("root.serialize", 0))]
          IN IF r.exc # "" THEN Raise(d, r.exc) ELSE [d EXCEPT !.data = r.data]

\* union.serialize: None[0] raises TypeError
serialize ==
  IF value = <<>> THEN Raise(Cur, "TypeError")
  ELSE LET r == TypeSerialize(value[1])
           d == [Cur EXCEPT !.trace = <<Ev("root.serialize", 0)>>]
       IN IF r.exc # "" THEN Raise(d, r.exc) ELSE [d EXCEPT !.data = r.data]

\* union.__deserialize_block__
__deserialize_block__(bytes) ==
  IF value = <<>> THEN Raise(Cur, "TypeError")
  ELSE LET r == Deserialize(value[1], bytes)
           d == [Cur EXCEPT !.trace = <<Ev("root.deserialize", 0)>>]
       IN IF r.exc # "" THEN Raise(d, r.exc) ELSE [d EXCEPT !.value = <<r.inst>>]

(* ---------------------------- the inputs -------------------------------- *)
\* the (type, name) pairs a declared union draws its _fields_ from
Field(t, n) == [type |-> t, name |-> n]
FieldDecls ==
  {Field(uint32_t, n_a), Field(block(IntArg(4)).val, n_A), Field(strict_t, n_s)}

\* the lists of at most n declared fields
RECURSIVE FieldLists(_)
FieldLists(n) ==
  IF n = 0 THEN {<<>>}
  ELSE LET shorter == FieldLists(n - 1)
       IN shorter \cup {Append(l, f) : l \in {x \in shorter : Len(x) = n - 1}, f \in FieldDecls}

\* the declared root types: none, dynamic.array(pint.uint8_t, 4), dynamic.block(2)
RootDecls == {None_t, ArrayType(uint8_t, 4), block(IntArg(2)).val}

\* a declared union class: its _fields_ and its _value_
Union(f, v) == [fields |-> f, root |-> v]

\* the unions declared by test_dynamic_union_rootstatic and test_dynamic_union_rootchoose
test_rootstatic ==
  Union(<<Field(block(IntArg(4)).val, n_block), Field(uint32_t, n_int)>>, ArrayType(uint8_t, 4))
test_rootchoose ==
  Union(<<Field(uint32_t, n_a), Field(uint16_t, n_b), Field(uint8_t, n_c)>>, None_t)

Unions ==
  {Union(f, v) : f \in FieldLists(MaxFields), v \in RootDecls} \cup {test_rootstatic, test_rootchoose}

\* the byte string behind the source: 'AAAA..'
Sources == {[i \in 1..SrcLen |-> 65]}

\* the names a caller asks for: the declared ones in three spellings, and a stranger
UpperChar(c) == IF c \in 97..122 THEN c - 32 ELSE c
Upper(s) == [i \in DOMAIN s |-> UpperChar(s[i])]
Keys ==
  UNION {{_fields_[i].name, Upper(_fields_[i].name), Lower(_fields_[i].name)} : i \in DOMAIN _fields_}
    \cup {n_zz}

(* ---------------------------- the actions ------------------------------- *)
\* the arguments of a call: a field name, keyword attributes, an offset, a size
NoArgs ==
  [key |-> <<>>, attrs |-> NoAttrs, off |-> 0, size |-> NoneArg, target |-> None_t, optional |-> <<>>,
   block |-> <<>>]

\* the outcome of a call: what was called with what, the exception raised
\* ("" when it returned), the value or the type returned, and its events
Outcome(op, args, exc, val, type, trace) ==
  [op |-> op, key |-> args.key, attrs |-> args.attrs, off |-> args.off, size |-> args.size,
   target |-> args.target, optional |-> args.optional, block |-> args.block,
   exc |-> exc, val |-> val, data |-> <<>>, type |-> type, trace |-> trace]

NoCall == Outcome("", NoArgs, "", 0, None_t, <<>>)

\* a call of the union's method op with arguments args ended as o says
Do(op, args, o) ==
  /\ Len(log) + Len(o.logged) <= MaxLog
  /\ value' = o.value
  /\ __object__' = o.object
  /\ fastindex' = o.index
  /\ discarded' = o.discarded
  /\ source' = o.source
  /\ offset' = o.offset
  /\ ret' = [Outcome(op, args, o.exc, o.val, None_t, o.trace) EXCEPT !.data = o.data]
  /\ log' = log \o o.logged
  /\ UNCHANGED <<_fields_, _value_, Config>>

Load == \E attrs \in Attrs : Do("load", [NoArgs EXCEPT !.attrs = attrs], load(attrs))
Alloc == \E attrs \in Attrs : Do("alloc", [NoArgs EXCEPT !.attrs = attrs], alloc(attrs))
Commit == \E attrs \in Attrs : Do("commit", [NoArgs EXCEPT !.attrs = attrs], commit(attrs))
BlockSize == Do("blocksize", NoArgs, blocksize)
Size == Do("size", NoArgs, size)
GetItem == \E key \in Keys : Do("__getitem__", [NoArgs EXCEPT !.key = key], __getitem__(key))
\* the union is moved to the start of the source or to the largest offset
SetPosition ==
  \E off \in {0, MaxOffset} : Do("setposition", [NoArgs EXCEPT !.off = off], setposition(off))

\* a union instance right after construction
Init ==
  /\ \E u \in Unions : _fields_ = u.fields /\ _value_ = u.root
  /\ source \in Sources
  /\ offset = 0
  /\ value = <<>>
  /\ __object__ = [isNone |-> TRUE, list |-> <<>>]
  /\ fastindex = <<>>
  /\ discarded = 0
  /\ ret = NoCall
  /\ log = <<>>
  /\ Config = Defaults

Next == Load \/ Alloc \/ Commit \/ BlockSize \/ Size \/ GetItem \/ SetPosition

Spec == Init /\ [][Next]_vars

\* the bytes a caller fills a block with, and the block handed to a union:
\* as long as the root's blocksize, one byte for a union without a root
BlockBytes == {0, 66}
Blocks ==
  {[i \in 1..(IF value = <<>> THEN 1 ELSE InstBlockSize(value[1])) |-> b] : b \in BlockBytes}

Union_serialize == Do("serialize", NoArgs, serialize)
Union_deserialize_block ==
  \E bytes \in Blocks :
    Do("__deserialize_block__", [NoArgs EXCEPT !.block = bytes], __deserialize_block__(bytes))

\* a union that is also serialized and deserialized without being loaded first
RawNext == Load \/ Alloc \/ GetItem \/ SetPosition \/ Union_serialize \/ Union_deserialize_block

RawSpec == Init /\ [][RawNext]_vars

(* ------------------------ the factory calls ----------------------------- *)
\* a call of a factory with arguments args ended as r says
Call(op, args, r) ==
  /\ Len(log) + Len(r.logged) <= MaxLog
  /\ ret' = Outcome(op, args, r.exc, 0, r.val, <<>>)
  /\ log' = log \o r.logged
  /\ value' = <<>>
  /\ UNCHANGED <<_fields_, _value_, source, offset, __object__, fastindex, discarded, Config>>

CallBlock == \E sz \in SizeArgs : Call("block", [NoArgs EXCEPT !.size = sz], block(sz))

\* the element types handed to blockarray and array
ElemTypes == {uint8_t, uint16_t}

CallBlockArray ==
  \E t \in ElemTypes, sz \in SizeArgs :
    Call("blockarray", [NoArgs EXCEPT !.target = t, !.size = sz], blockarray(t, sz))

CallArray ==
  \E t \in ElemTypes, n \in SizeArgs :
    Call("array", [NoArgs EXCEPT !.target = t, !.size = n], array(t, n))

\* the byte string the returned types are loaded from: '@ABC..'
FactorySource == [i \in 1..(2 * MaxSize) |-> 63 + i]

\* ``v(source=x).l`` on the type the last factory call returned
Instantiate ==
  /\ ret.exc = "" /\ ret.type # None_t /\ value = <<>>
  /\ value' = <<TypeLoad(New(ret.type, <<>>, offset), NoAttrs, source).inst>>
  /\ UNCHANGED <<_fields_, _value_, source, offset, __object__, fastindex, discarded, ret, log, Config>>

FactoryInit ==
  /\ _fields_ = <<>>
  /\ _value_ = None_t
  /\ source = FactorySource
  /\ offset = 0
  /\ value = <<>>
  /\ __object__ = [isNone |-> TRUE, list |-> <<>>]
  /\ fastindex = <<>>
  /\ discarded = 0
  /\ ret = NoCall
  /\ log = <<>>
  /\ Config = Defaults

FactoryNext == CallBlock \/ CallBlockArray \/ Instantiate

FactorySpec == FactoryInit /\ [][FactoryNext]_vars

(* ------------------------- the array calls ------------------------------ *)
\* Config.parray: no limit, or a limit with either setting of the flag
ArrayConfigs ==
  {[Defaults EXCEPT !.max_count = m, !.break_on_max_count = b] :
     m \in {0, MaxSize \div 2}, b \in BOOLEAN}

ArrayInit ==
  /\ _fields_ = <<>>
  /\ _value_ = None_t
  /\ source = FactorySource
  /\ offset = 0
  /\ value = <<>>
  /\ __object__ = [isNone |-> TRUE, list |-> <<>>]
  /\ fastindex = <<>>
  /\ discarded = 0
  /\ ret = NoCall
  /\ log = <<>>
  /\ Config \in ArrayConfigs

ArrayNext == CallArray \/ Instantiate

ArraySpec == ArrayInit /\ [][ArrayNext]_vars

(* --------------------- align inside a pstruct.type ---------------------- *)
\* the class that align(m) returns: its blocksize() pads to a multiple of m
AlignType(m, undefined) ==
  [kind |-> IF undefined THEN "undefined" ELSE "align", length |-> m, count |-> 1]

\* dynamic.align(m, undefined=...)
align(m, undefined) ==
  IF ~IsIntegral(m)
    THEN Raised("UserError")
    ELSE Returned(AlignType(m.v, undefined), <<>>)

\* Python's a & b on integers of any sign (two's complement, no width)
RECURSIVE BitAnd(_, _)
BitAnd(a, b) ==
  IF a = 0 \/ b = 0 THEN 0
  ELSE IF a = 0 - 1 THEN b
  ELSE IF b = 0 - 1 THEN a
  ELSE (a % 2) * (b % 2) + 2 * BitAnd(a \div 2, b \div 2)

\* self.parent of an instance: None, or a container at an offset with its value
NoParent == [isNone |-> TRUE, offset |-> 0, value |-> <<>>]
Parent(off, val) == [isNone |-> FALSE, offset |-> off, value |-> val]

\* parent.value.index(self), counted from 1; 0 when self is not in parent.value
IndexOf(val, self) ==
  IF \E i \in DOMAIN val : val[i].name = self.name
    THEN CHOOSE i \in DOMAIN val :
           val[i].name = self.name /\ \A j \in 1..(i - 1) : val[j].name # self.name
    ELSE 0

RECURSIVE ElementBlockSize(_, _)
RECURSIVE PrefixBlockSize(_, _)

\* the closure blocksize(self) that align attaches to its class
align_blocksize(self, parent) ==
  IF parent.isNone \/ IndexOf(parent.value, self) = 0
    THEN 0
    ELSE LET idx == IndexOf(parent.value, self) - 1
             off == parent.offset + PrefixBlockSize(parent, idx)
         IN BitAnd(0 - off, self.type.length - 1)

\* n.blocksize() of an element of a container
ElementBlockSize(self, parent) ==
  IF self.type.kind \in {"align", "undefined"}
    THEN align_blocksize(self, parent)
    ELSE TypeBlockSize(self.type)

\* sum(n.blocksize() for n in parent.value[:idx])
PrefixBlockSize(parent, idx) ==
  IF idx = 0 THEN 0
  ELSE PrefixBlockSize(parent, idx - 1) + ElementBlockSize(parent.value[idx], parent)

\* pstruct.type.load from field i on: each field is instantiated at the
\* running offset, appended to the value and loaded with its blocksize()
RECURSIVE StructLoad(_, _)
StructLoad(val, i) ==
  IF i > Len(_fields_)
    THEN val
    ELSE LET ofs == offset + PrefixBlockSize(Parent(offset, val), i - 1)
             n == New(_fields_[i].type, _fields_[i].name, ofs)
             bs == ElementBlockSize(n, Parent(offset, Append(val, n)))
             l == [n EXCEPT !.init = TRUE, !.data = SubSeq(source, ofs + 1, ofs + bs)]
         IN StructLoad(Append(val, l), i + 1)

n_alignment == <<97, 108, 105, 103, 110, 109, 101, 110, 116>>
n_end == <<101, 110, 100>>

\* the fields that come before the alignment: ``n`` of them, named 'a', 'b', ..
RECURSIVE Prefixes(_)
Prefixes(n) ==
  IF n = 0 THEN {<<>>}
  ELSE LET shorter == Prefixes(n - 1)
       IN shorter \cup {Append(l, Field(t, <<96 + n>>)) :
                          l \in {x \in shorter : Len(x) = n - 1}, t \in {uint8_t, uint32_t}}

\* the pstruct declarations after test_dynamic_alignment: some fields,
\* (dynamic.align(m), 'alignment'), (pint.uint32_t, 'end')
Structs ==
  {p \o <<Field(align(IntArg(m), u).val, n_alignment), Field(uint32_t, n_end)>> :
     p \in Prefixes(MaxFields), m \in 1..MaxSize, u \in BOOLEAN}

CallAlign ==
  \E sz \in SizeArgs, u \in BOOLEAN :
    Call("align", [NoArgs EXCEPT !.size = sz, !.attrs = [hasOffset |-> u, offset |-> 0]], align(sz, u))

\* ``a.l`` then ``a.size()`` on the structure
Struct_load ==
  /\ value' = StructLoad(<<>>, 1)
  /\ ret' = Outcome("pstruct.load", NoArgs, "",
                     PrefixBlockSize(Parent(offset, value'), Len(value')), None_t, <<>>)
  /\ UNCHANGED <<_fields_, _value_, source, offset, __object__, fastindex, discarded, log, Config>>

\* ``dynamic.align(m)().blocksize()``: an instance that is in no container
Align_blocksize ==
  \E m \in 1..MaxSize :
    /\ ret' = Outcome("align.blocksize", [NoArgs EXCEPT !.size = IntArg(m)], "",
                       align_blocksize(New(align(IntArg(m), FALSE).val, <<>>, 0), NoParent),
                       None_t, <<>>)
    /\ UNCHANGED <<_fields_, _value_, source, offset, value, __object__, fastindex, discarded, log, Config>>

StructInit ==
  /\ _fields_ \in Structs
  /\ _value_ = None_t
  /\ source = [i \in 1..(MaxOffset + 4 * MaxFields + MaxSize + 4) |-> 65]
  /\ offset \in 0..MaxOffset
  /\ value = <<>>
  /\ __object__ = [isNone |-> TRUE, list |-> <<>>]
  /\ fastindex = <<>>
  /\ discarded = 0
  /\ ret = NoCall
  /\ log = <<>>
  /\ Config = Defaults

StructNext == CallAlign \/ Struct_load \/ Align_blocksize

StructSpec == StructInit /\ [][StructNext]_vars

(* ---------------------------- the pointers ------------------------------ *)
\* ptype.pointer_t._value_, the native pointer-sized integer, and pint.uint64_t
pointer_t_value_ == [kind |-> "pint", length |-> 4, count |-> 1]
uint64_t == [kind |-> "pint", length |-> 8, count |-> 1]

\* one positional argument after the target: None, a type, or a function
NoneOpt == [tag |-> "None", t |-> None_t, f |-> ""]
TypeOpt(t) == [tag |-> "type", t |-> t, f |-> ""]
FuncOpt(f) == [tag |-> "function", t |-> None_t, f |-> f]

\* ptype.clone(ptype.pointer_t / rpointer_t / opointer_t, _object_=.., _value_=.., ..)
PointerType(kind, target, res, baseobject, calculate) ==
  [kind |-> kind, length |-> res.length, count |-> 1, target |-> target,
   baseobject |-> baseobject, calculate |-> calculate, address |-> res]

\* a pointer that takes no addressing type but the native one
pointer_native_only(target, optional_type) ==
  IF Len(optional_type) > 1
    THEN Raised("TypeError")
    ELSE Returned(PointerType("pointer_t", target, pointer_t_value_, "", ""), <<>>)

\* dynamic.pointer
pointer(target, optional_type) ==
  IF Len(optional_type) > 1
    THEN Raised("TypeError")
    ELSE LET type == IF Len(optional_type) = 0 \/ optional_type[1].tag = "None"
                       THEN pointer_t_value_ ELSE optional_type[1].t
         IN Returned(PointerType("pointer_t", target, type, "", ""), <<>>)

\* ``X if len(optional) == 1 or optional[1] is None else optional[1]`` of rpointer
\* and opointer: optional[1] of a tuple shorter than 2 raises IndexError
SecondOrNative(optional) ==
  IF Len(optional) = 1 THEN [exc |-> "", t |-> pointer_t_value_]
  ELSE IF Len(optional) < 2 THEN [exc |-> "IndexError", t |-> None_t]
  ELSE IF optional[2].tag = "None" THEN [exc |-> "", t |-> pointer_t_value_]
  ELSE [exc |-> "", t |-> optional[2].t]

\* dynamic.rpointer; "outermost" is ``lambda s: list(s.walk())[-1]``
rpointer(target, optional) ==
  IF Len(optional) > 2
    THEN Raised("TypeError")
    ELSE LET obj == IF Len(optional) = 0 \/ optional[1].tag = "None"
                      THEN "outermost" ELSE optional[1].f
             t == SecondOrNative(optional)
         IN IF t.exc # "" THEN Raised(t.exc)
            ELSE Returned(PointerType("rpointer_t", target, t.t, obj, ""), <<>>)

\* dynamic.opointer; "identity" is ``lambda s,o: o``
opointer(target, optional) ==
  IF Len(optional) > 2
    THEN Raised("TypeError")
    ELSE LET calculate == IF Len(optional) = 0 \/ optional[1].tag = "None"
                            THEN "identity" ELSE optional[1].f
             t == SecondOrNative(optional)
         IN IF t.exc # "" THEN Raised(t.exc)
            ELSE Returned(PointerType("opointer_t", target, t.t, "", calculate), <<>>)

\* pint's int() of loaded bytes, little-endian
RECURSIVE IntLE(_)
IntLE(b) == IF b = <<>> THEN 0 ELSE b[1] + 256 * IntLE(SubSeq(b, 2, Len(b)))

\* pint's int() of loaded bytes, big-endian
RECURSIVE IntBE(_)
IntBE(b) == IF b = <<>> THEN 0 ELSE IntBE(SubSeq(b, 1, Len(b) - 1)) * 256 + b[Len(b)]

\* x.int(): the stored bytes decoded in the configured byte order
PointerInt(x) == IF Config.byteorder = "bigendian" THEN IntBE(x.data) ELSE IntLE(x.data)

\* x.serialize()
Serialize(x) == x.data

\* x.d.getoffset(): the offset the pointer x resolves to; the pointer is a
\* field of a container at ``offset``, which is the outermost of its ancestors
Dereference(x) ==
  LET raw == PointerInt(x)
  IN IF x.type.kind = "rpointer_t"
       THEN raw + (IF x.type.baseobject = "outermost" THEN offset ELSE x.offset)
     ELSE IF x.type.kind = "opointer_t"
       THEN (IF x.type.calculate = "identity" THEN raw ELSE raw + 1)
     ELSE raw

\* the targets and the positional arguments of the calls
Targets == {block(IntArg(0)).val, block(IntArg(4)).val}
TypeOpts == {<<>>, <<NoneOpt>>, <<TypeOpt(uint64_t)>>, <<TypeOpt(pointer_t_value_), TypeOpt(uint64_t)>>}
FuncOpts(f) ==
  {<<>>, <<NoneOpt>>, <<NoneOpt, NoneOpt>>, <<FuncOpt(f)>>, <<FuncOpt(f), NoneOpt>>,
   <<NoneOpt, TypeOpt(uint64_t)>>, <<FuncOpt(f), TypeOpt(uint64_t)>>,
   <<NoneOpt, NoneOpt, NoneOpt>>}

CallPointer ==
  \E t \in Targets, o \in TypeOpts :
    Call("pointer", [NoArgs EXCEPT !.target = t, !.optional = o], pointer(t, o))

\* "self" is ``lambda s: s``
CallRPointer ==
  \E t \in Targets, o \in FuncOpts("self") :
    Call("rpointer", [NoArgs EXCEPT !.target = t, !.optional = o], rpointer(t, o))

\* "add1" is ``lambda s,o: o + 1``
CallOPointer ==
  \E t \in Targets, o \in FuncOpts("add1") :
    Call("opointer", [NoArgs EXCEPT !.target = t, !.optional = o], opointer(t, o))

\* ``x = t(source=s).l`` on the pointer type the last call returned, as the
\* field that follows one byte of its container
Pointer_load ==
  /\ ret.exc = "" /\ ret.type # None_t /\ value = <<>>
  /\ value' = <<TypeLoad(New(ret.type, <<>>, offset + 1), NoAttrs, source).inst>>
  /\ UNCHANGED <<_fields_, _value_, source, offset, __object__, fastindex, discarded, ret, log, Config>>

\* ``x.d.getoffset()``
Pointer_d ==
  /\ value # <<>> /\ value[1].init
  /\ ret' = Outcome("d", [NoArgs EXCEPT !.target = ret.target, !.optional = ret.optional], "",
                     Dereference(value[1]), value[1].type, <<>>)
  /\ UNCHANGED <<_fields_, _value_, source, offset, value, __object__, fastindex, discarded, log, Config>>

\* a byte order with bytes to decode in it: the strings of the pointer tests
PointerCases ==
  {[order |-> "bigendian", bytes |-> <<65, 66, 67, 68>>],
   [order |-> "littleendian", bytes |-> <<65, 66, 67, 68>>],
   [order |-> "littleendian", bytes |-> <<68, 67, 66, 65>>],
   [order |-> "bigendian", bytes |-> <<0, 0, 0, 4>>],
   [order |-> "littleendian", bytes |-> <<4, 0, 0, 0>>],
   [order |-> "littleendian", bytes |-> <<8, 0, 0, 0, 0, 0, 0, 0>>],
   [order |-> "bigendian", bytes |-> <<0, 0, 0, 0, 0, 0, 0, 8>>]}

PointerInit ==
  /\ _fields_ = <<>>
  /\ _value_ = None_t
  /\ offset \in 0..MaxOffset
  /\ \E c \in PointerCases :
       /\ source = Zeros(offset + 1) \o c.bytes
       /\ Config = [Defaults EXCEPT !.byteorder = c.order]
  /\ value = <<>>
  /\ __object__ = [isNone |-> TRUE, list |-> <<>>]
  /\ fastindex = <<>>
  /\ discarded = 0
  /\ ret = NoCall
  /\ log = <<>>

PointerNext == CallPointer \/ CallRPointer \/ CallOPointer \/ Pointer_load \/ Pointer_d

PointerSpec == PointerInit /\ [][PointerNext]_vars

(* ------------------------------ claims ---------------------------------- *)
\* the root storage and the aliases of the union, when they exist
Root == value[1]
Aliases == __object__.list
Created == value # <<>>

\* the step is a call of the factory op: it leaves no instance behind
Called(op) == ret'.op = op /\ value' = <<>>

\* the events of the last call that touched an alias
AliasEvents == {k \in DOMAIN ret.trace : ret.trace[k].i # 0}

\* C1: after load() or alloc() returns, every alias no larger than the root
\* holds exactly the first size(alias) bytes of the root storage.
C1_AliasesOverlayRoot ==
  (ret.op \in {"load", "alloc"} /\ ret.exc = "") =>
    \A i \in DOMAIN Aliases :
      InstBlockSize(Aliases[i]) <= InstSize(Root) =>
        /\ Aliases[i].init
        /\ Aliases[i].data = SubSeq(Root.data, 1, InstBlockSize(Aliases[i]))

\* test_dynamic_union_rootstatic: 'AAAA' read as 0x41414141 through alias 'int'
C1_Witness ==
  /\ Union(_fields_, _value_) = test_rootstatic
  /\ ret.op = "load" /\ ret.exc = ""
  /\ IntBE(Aliases[2].data) = 1094795585
  /\ InstSize(Aliases[1]) = 4
  /\ InstSize(Root) = 4

C3_SizeIsRootSize ==
  /\ (ret.op = "size" /\ ret.exc = "") => Created /\ ret.val = InstSize(Root)
  /\ (ret.op = "blocksize" /\ ret.exc = "") => Created /\ ret.val = InstBlockSize(Root)

\* size() answered with the root's size while a loaded alias has another size
C3_Witness ==
  /\ ret.op = "size" /\ ret.exc = "" /\ ret.val = 2
  /\ \E i \in DOMAIN Aliases : Aliases[i].init /\ InstSize(Aliases[i]) = 1

\* whether the name table holds the lower-cased key
Registered(key) == Lower(key) \in DOMAIN fastindex

\* C4: a registered name in any spelling gives that field's alias; a name
\* that is not registered gives KeyError and changes nothing of the union.
C4_GetItemByName ==
  [][ret'.op = "__getitem__" =>
       IF Registered(ret'.key)
         THEN /\ ret'.exc = ""
              /\ ret'.val = fastindex[Lower(ret'.key)]
              /\ Lower(Aliases'[ret'.val + 1].name) = Lower(ret'.key)
         ELSE /\ ret'.exc = "KeyError"
              /\ UNCHANGED <<value, __object__, fastindex>>]_vars

\* C5 as written: from the Empty state every first access, a field access by
\* a declared name included, every first alloc and load creates the root and
\* one alias per declared field.
C5_FirstUseCreates ==
  [][(~Created /\ ret'.op \in {"size", "blocksize", "commit", "alloc", "load", "__getitem__"}
        /\ (ret'.op = "__getitem__" => \E i \in DOMAIN _fields_ : _fields_[i].name = ret'.key))
       => Created' /\ ~__object__'.isNone /\ Len(Aliases') = Len(_fields_)]_vars

\* a union that declares neither a root type nor a field
Undeclared == _value_ = None_t /\ _fields_ = <<>>

\* C5 amended: construction creates nothing; from the Empty state the first
\* size(), blocksize(), commit(), alloc() or load() creates the root and one
\* alias per declared field, unless the union declares neither a root nor a
\* field, when the call raises and the union stays Empty; a field access on
\* the Empty union raises KeyError and creates nothing.
C5_LazyCreation ==
  /\ ret = NoCall => ~Created /\ __object__.isNone /\ fastindex = <<>>
  /\ [][~Created =>
          /\ (ret'.op \in {"size", "blocksize", "commit", "alloc", "load"} /\ ~Undeclared) =>
               /\ Created' /\ ~__object__'.isNone
               /\ Len(Aliases') = Len(_fields_)
               /\ \A i \in DOMAIN _fields_ :
                    Aliases'[i].type = _fields_[i].type /\ Aliases'[i].name = _fields_[i].name
               /\ \A i \in DOMAIN _fields_ : Lower(_fields_[i].name) \in DOMAIN fastindex'
          /\ (ret'.op \in {"size", "blocksize", "commit", "alloc", "load"} /\ Undeclared) =>
               ret'.exc = "ValueError" /\ ~Created' /\ __object__'.isNone
          /\ ret'.op = "__getitem__" =>
               ret'.exc = "KeyError" /\ ~Created' /\ __object__'.isNone]_vars

\* the first size() of a union made its root and its two aliases
C5_Witness ==
  /\ ret.op = "size" /\ ret.trace = <<Ev("create", 0)>>
  /\ Created /\ Len(Aliases) = 2 /\ _value_ = None_t

\* the alias the last __getitem__ tried to load, 0 when it tried none
Tried == IF ret.trace = <<>> THEN 0 ELSE ret.trace[Len(ret.trace)].i

\* C6: when the lazy load of the alias asked for fails, whatever the
\* failure, __getitem__ logs it, raises nothing and returns the alias unloaded.
C6_LazyLoadContained ==
  (ret.op = "__getitem__" /\ Tried # 0 /\ ~Aliases[Tried].init) =>
    /\ ret.exc = ""
    /\ ret.val = Tried - 1
    /\ log # <<>> /\ log[Len(log)] = LogRec("warning", "union.__getitem__", ret.val)

\* C7: when an alias fails to load inside load() or alloc(), the call still
\* returns the union and every other alias has been reloaded.
C7_FieldFailureContained ==
  (ret.op \in {"load", "alloc"} /\ AliasEvents # {}) =>
    /\ ret.exc = ""
    /\ \A i \in DOMAIN Aliases : \E k \in AliasEvents : ret.trace[k] = Ev("alias.load", i)

\* C8: commit(attrs) commits the root with attrs and nothing else: no alias
\* is committed or loaded, the alias list and the name table stay as they
\* are (as __create__ made them, when the union was Empty).
C8_CommitRootOnly ==
  [][ret'.op = "commit" =>
       /\ Created => UNCHANGED <<value, __object__, fastindex>>
       /\ (~Created /\ ret'.exc # "ValueError") =>
            /\ Created' /\ ~Root'.init
            /\ \A i \in DOMAIN Aliases' : ~Aliases'[i].init
       /\ \A k \in DOMAIN ret'.trace : ret'.trace[k] \in {Ev("create", 0), Ev("root.commit", 0)}
       /\ ret'.exc = "" =>
            LET o == EffOffset(Root', ret'.attrs)
            IN /\ SubSeq(source', o + 1, o + InstSize(Root')) = Root'.data
               /\ \A i \in DOMAIN source : (i <= o \/ i > o + InstSize(Root')) => source'[i] = source[i]]_vars

\* a commit(offset=1) stored a loaded two-byte root beside loaded aliases
C8_Witness ==
  /\ ret.op = "commit" /\ ret.exc = "" /\ ret.attrs.hasOffset /\ ret.trace = <<Ev("root.commit", 0)>>
  /\ source # [i \in 1..SrcLen |-> 65]
  /\ \E i \in DOMAIN Aliases : Aliases[i].init

\* C9: the root, when it exists, is at the union's own offset, and every
\* alias is at offset zero of the proxy.
C9_RootFollowsUnion ==
  /\ Created => Root.offset = offset
  /\ \A i \in DOMAIN Aliases : Aliases[i].offset = 0

\* the union was moved after its creation and the root moved with it
C9_Witness ==
  /\ ret.op = "setposition" /\ ret.trace # <<>> /\ offset = 1 /\ Root.offset = 1
  /\ Aliases # <<>>

\* C10: block(size) gives a type of that size for an integer size >= 0, a
\* type of size 0 and a logged record for a negative one, and raises
\* UserError, giving no type, for a size that is no integer.
C10_Block ==
  [][Called("block") =>
       LET a == ret'.size
       IN /\ (a.tag \in {"int", "bool"} /\ a.v >= 0) =>
               ret'.exc = "" /\ ret'.type.kind = "block" /\ TypeBlockSize(ret'.type) = a.v /\ log' = log
          /\ (a.tag = "int" /\ a.v < 0) =>
               /\ ret'.exc = "" /\ ret'.type.kind = "block" /\ TypeBlockSize(ret'.type) = 0
               /\ log' = Append(log, LogRec("error", "block", a.v))
          /\ a.tag \in {"float", "str", "NoneType"} =>
               ret'.exc = "UserError" /\ ret'.type = None_t /\ log' = log]_vars

\* block(-1) gave a block of size 0 and logged
C10_Witness ==
  /\ ret.op = "block" /\ ret.size = IntArg(0 - 1) /\ ret.exc = ""
  /\ TypeBlockSize(ret.type) = 0 /\ log # <<>>

\* the records the step added to the log that come from the max_count guard
GuardRecs ==
  LET new == SubSeq(log', Len(log) + 1, Len(log'))
  IN {new[k] : k \in {j \in DOMAIN new : new[j].level \in {"warning", "fatal"}}}

\* C11: array(T, count) for an integer count > 0 that the max_count guard lets
\* through gives an array type of length count, and logs nothing; for a
\* negative count the length is 0 and the count is logged; the instance loaded
\* from the type has length-many elements, element i being the i-th
\* element-sized slice of the source.
C11_Array ==
  /\ (ret.op = "array" /\ ret.exc = "" /\ value # <<>>) =>
       LET z == value[1]
           w == ret.target.length
       IN /\ z.init /\ Len(Elements(z)) = ret.type.count
          /\ \A i \in 0..(ret.type.count - 1) :
               Elements(z)[i + 1] = SubSeq(source, i * w + 1, (i + 1) * w)
  /\ [][(Called("array") /\ IsIntegral(ret'.size)) =>
          LET n == ret'.size.v
          IN /\ (n > 0 /\ ~(Config.max_count > 0 /\ n > Config.max_count)) =>
                  /\ ret'.exc = "" /\ ret'.type.kind = "array"
                  /\ ret'.type.count = n /\ ret'.type.length = ret'.target.length
                  /\ log' = log
             /\ n < 0 =>
                  /\ ret'.exc = "" /\ ret'.type.kind = "array" /\ ret'.type.count = 0
                  /\ log' = Append(log, LogRec("error", "dynamic.array", n))]_vars

\* array(uint16_t, 4) loaded from '@ABCDEFG': four elements, the last one 'FG'
C11_Witness ==
  /\ ret.op = "array" /\ ret.size = IntArg(4) /\ ret.target = uint16_t
  /\ value # <<>> /\ Len(Elements(value[1])) = 4
  /\ Elements(value[1])[4] = <<70, 71>>

\* C12: array(T, count) with a count that is no integer (a fractional number,
\* a numeric string) raises UserError as block does and gives no type.
C12_ArrayRejectsNonInteger ==
  (ret.op = "array" /\ ~IsIntegral(ret.size)) =>
    ret.exc = "UserError" /\ ret.type = None_t

\* C13 as written: whatever max_count is, a count above it is refused when
\* break_on_max_count is set and is warned about and accepted when it is not;
\* a count that is not above it is neither refused nor warned about.
C13_MaxCountGuard ==
  [][(Called("array") /\ IsIntegral(ret'.size)) =>
       LET n == ret'.size.v
       IN IF n > Config.max_count
            THEN IF Config.break_on_max_count
                   THEN ret'.exc = "UserError" /\ ret'.type = None_t
                   ELSE /\ ret'.exc = "" /\ ret'.type.count = n
                        /\ GuardRecs = {LogRec("warning", "dynamic.array", n)}
            ELSE ret'.exc = "" /\ GuardRecs = {}]_vars

\* C13 amended: the guard works only when max_count is greater than 0; then a
\* count above max_count is refused when break_on_max_count is set and is
\* warned about and accepted when it is not; with max_count 0, or a count not
\* above it, array refuses nothing and the guard logs nothing.
C13_PositiveMaxCountGuard ==
  [][(Called("array") /\ IsIntegral(ret'.size)) =>
       LET n == ret'.size.v
       IN IF Config.max_count > 0 /\ n > Config.max_count
            THEN IF Config.break_on_max_count
                   THEN ret'.exc = "UserError" /\ ret'.type = None_t
                   ELSE /\ ret'.exc = "" /\ ret'.type.count = n
                        /\ GuardRecs = {LogRec("warning", "dynamic.array", n)}
            ELSE ret'.exc = "" /\ GuardRecs = {}]_vars

\* with max_count 2 and the flag set, array(T, 4) was refused
C13_Witness ==
  /\ ret.op = "array" /\ ret.size = IntArg(4) /\ ret.exc = "UserError"
  /\ Config.max_count = 2 /\ Config.break_on_max_count
  /\ log # <<>> /\ log[Len(log)].level = "fatal"

\* C18: blockarray(T, size) raises UserError for a size that is no integer,
\* logs a negative size and takes it as 0, and gives a type whose instances
\* have that size as their blocksize, whatever T and the elements decoded.
C18_BlockArray ==
  /\ (ret.op = "blockarray" /\ ret.exc = "" /\ value # <<>>) =>
       /\ InstBlockSize(value[1]) = (IF ret.size.v < 0 THEN 0 ELSE ret.size.v)
       /\ value[1].type.element = ret.target
  /\ [][Called("blockarray") =>
          LET a == ret'.size
          IN /\ (IsIntegral(a) /\ a.v >= 0) =>
                  /\ ret'.exc = "" /\ ret'.type.kind = "blockarray"
                  /\ TypeBlockSize(ret'.type) = a.v /\ log' = log
             /\ (IsIntegral(a) /\ a.v < 0) =>
                  /\ ret'.exc = "" /\ ret'.type.kind = "blockarray" /\ TypeBlockSize(ret'.type) = 0
                  /\ log' = Append(log, LogRec("error", "blockarray", a.v))
             /\ ~IsIntegral(a) =>
                  ret'.exc = "UserError" /\ ret'.type = None_t /\ log' = log]_vars

\* blockarray(uint16_t, 3): three bytes long with one whole element decoded
C18_Witness ==
  /\ ret.op = "blockarray" /\ ret.size = IntArg(3) /\ ret.target = uint16_t
  /\ value # <<>> /\ value[1].init
  /\ InstBlockSize(value[1]) = 3 /\ Len(Elements(value[1])) = 1

\* the cumulative size of the elements before the i-th one of the structure
RECURSIVE SizeBefore(_)
SizeBefore(i) == IF i <= 1 THEN 0 ELSE SizeBefore(i - 1) + InstSize(value[i - 1])

\* C14: an align(m) element of a loaded structure, m >= 1, has the least size
\* p >= 0 that makes o + p a multiple of m, o being the cumulative size of
\* the elements before it; the element after it starts on a multiple of m.
C14_AlignPads ==
  \A i \in DOMAIN value :
    (value[i].type.kind \in {"align", "undefined"} /\ value[i].type.length >= 1) =>
      LET m == value[i].type.length
          o == SizeBefore(i)
          p == InstSize(value[i])
      IN /\ p >= 0 /\ (o + p) % m = 0
         /\ \A q \in 0..(p - 1) : (o + q) % m # 0

\* the bytes of the source that a loaded pointer was read from
Stored(x) == SubSeq(source, x.offset + 1, x.offset + x.type.length)

\* the addressing type a call's positional arguments ask for at position k
Addressing(optional, k) ==
  IF Len(optional) < k \/ optional[k].tag = "None" THEN pointer_t_value_ ELSE optional[k].t

\* the integer that the stored bytes of x are in the configured byte order
Raw(x) == IF Config.byteorder = "bigendian" THEN IntBE(Stored(x)) ELSE IntLE(Stored(x))

\* C15: pointer(target, type?) gives an absolute pointer to target whose
\* addressing type is the native one when the type is omitted or None and
\* the given type otherwise; a loaded pointer serializes to the bytes it was
\* loaded from and dereferences to the integer these bytes are in the
\* configured byte order.
C15_Pointer ==
  /\ (ret.op = "pointer" /\ ret.exc = "") =>
       /\ ret.type.kind = "pointer_t" /\ ret.type.target = ret.target
       /\ ret.type.address = Addressing(ret.optional, 1)
  /\ (value # <<>> /\ value[1].init /\ value[1].type.kind = "pointer_t") =>
       /\ Serialize(value[1]) = Stored(value[1])
       /\ Len(Serialize(value[1])) = Addressing(ret.optional, 1).length
  /\ (ret.op = "d" /\ ret.type.kind = "pointer_t") => ret.val = Raw(value[1])

\* test_dynamic_pointer_bigendian: 'ABCD' dereferences to 0x41424344
C15_Witness ==
  /\ ret.op = "d" /\ ret.type.kind = "pointer_t" /\ ret.optional = <<>>
  /\ Config.byteorder = "bigendian" /\ Serialize(value[1]) = <<65, 66, 67, 68>>
  /\ ret.val = 1094861636

\* the positional arguments that leave everything to the defaults
AllDefault(optional) == \A k \in DOMAIN optional : optional[k].tag = "None"

\* C16: rpointer(target) with the selector and the addressing type omitted or
\* None gives a relative pointer with the native addressing type whose
\* selector is the outermost ancestor; it dereferences to the decoded
\* integer plus that ancestor's offset.
C16_RPointerDefaults ==
  /\ (ret.op = "rpointer" /\ Len(ret.optional) <= 2 /\ AllDefault(ret.optional)) =>
       /\ ret.exc = "" /\ ret.type.kind = "rpointer_t"
       /\ ret.type.address = pointer_t_value_ /\ ret.type.baseobject = "outermost"
  /\ (ret.op = "d" /\ ret.type.kind = "rpointer_t" /\ AllDefault(ret.optional)) =>
       ret.val = Raw(value[1]) + offset

\* C17: opointer(target) with the transform and the addressing type omitted
\* or None gives a pointer whose transform is the identity; it dereferences
\* to the decoded integer, as pointer(target) does on the same bytes.
C17_OPointerDefaults ==
  /\ (ret.op = "opointer" /\ Len(ret.optional) <= 2 /\ AllDefault(ret.optional)) =>
       /\ ret.exc = "" /\ ret.type.kind = "opointer_t"
       /\ ret.type.address = pointer_t_value_ /\ ret.type.calculate = "identity"
  /\ (ret.op = "d" /\ ret.type.kind = "opointer_t" /\ AllDefault(ret.optional)) =>
       ret.val = Raw(value[1])

\* the place among the events of a call of the root's own load or alloc, 0 when it has none
RootEvent(tr) ==
  IF \E k \in DOMAIN tr : tr[k].what \in {"root.load", "root.alloc"}
    THEN CHOOSE k \in DOMAIN tr : tr[k].what \in {"root.load", "root.alloc"}
    ELSE 0

\* C19: a load() or alloc() that finds a root to make runs create() first
\* when the union is Empty and not otherwise, then the root's load or alloc,
\* and only then loads the aliases; once the root's load or alloc has
\* completed every registered alias is loaded, in the order of the list.
C19_RootThenEveryAlias ==
  [][(ret'.op \in {"load", "alloc"} /\ ret'.exc # "ValueError") =>
       LET tr == ret'.trace
           r == RootEvent(tr)
       IN /\ r # 0 /\ tr[r].what = (IF ret'.op = "load" THEN "root.load" ELSE "root.alloc")
          /\ ~Created => r = 2 /\ tr[1] = Ev("create", 0)
          /\ Created => r = 1
          /\ \A k \in DOMAIN tr : tr[k].what = "alias.load" => k > r
          /\ (ret'.exc = "" \/ r < Len(tr)) =>
               \A i \in DOMAIN Aliases' : r + i <= Len(tr) /\ tr[r + i] = Ev("alias.load", i)]_vars

\* the create() events among the events of a call
Creates(tr) == {k \in DOMAIN tr : tr[k].what = "create"}

\* C20: create() runs only in a call that finds the union Empty, once, and
\* leaves it Created; a Created union stays Created and later calls keep its
\* root, its aliases (their types, names and number), its name table and the
\* count of the instances made to be measured.
C20_CreatedOnce ==
  [][/\ ~Created => Cardinality(Creates(ret'.trace)) <= 1 /\ (Created' <=> Creates(ret'.trace) # {})
     /\ Created =>
          /\ Created' /\ Creates(ret'.trace) = {}
          /\ Root'.type = Root.type /\ Root'.name = Root.name
          /\ ~__object__'.isNone /\ Len(Aliases') = Len(Aliases)
          /\ \A i \in DOMAIN Aliases :
               /\ Aliases'[i].type = Aliases[i].type /\ Aliases'[i].name = Aliases[i].name
               /\ Aliases'[i].offset = Aliases[i].offset
          /\ fastindex' = fastindex /\ discarded' = discarded]_vars

\* a second load() of a union found its root and its aliases and made none
C20_Witness ==
  /\ ret.op = "load" /\ ret.exc = "" /\ ret.trace[1] = Ev("root.load", 0)
  /\ Created /\ Len(Aliases) = 2 /\ \A i \in DOMAIN Aliases : Aliases[i].init
  /\ discarded = 2

\* the lower-cased declared names, and the places in the list (counted from 0)
\* of the fields that carry the name k
DeclaredKeys == {Lower(_fields_[i].name) : i \in DOMAIN _fields_}
Named(k) == {i - 1 : i \in {j \in DOMAIN _fields_ : Lower(_fields_[j].name) = k}}
UniqueNames ==
  \A i, j \in DOMAIN _fields_ : Lower(_fields_[i].name) = Lower(_fields_[j].name) => i = j

\* the calls that create an Empty union before they do their work
CreatingOps == {"load", "alloc", "commit", "size", "blocksize"}

\* C21: after create() the name table maps the lower-cased name of each
\* declared field to a place in the alias list: with names that are unique
\* without regard to case it has one entry per field, that of the field's own
\* alias; with a name declared twice create() raises nothing and the entry
\* is the place of the field declared last.
C21_NameTable ==
  /\ (ret.op \in CreatingOps /\ (_fields_ # <<>> \/ _value_ # None_t)) => Created
  /\ Created =>
       /\ DOMAIN fastindex = DeclaredKeys
       /\ \A k \in DeclaredKeys : fastindex[k] = SetMax(Named(k))
       /\ UniqueNames =>
            /\ Cardinality(DOMAIN fastindex) = Len(_fields_)
            /\ \A i \in DOMAIN _fields_ : fastindex[Lower(_fields_[i].name)] = i - 1

\* a load() created a union that declares 'a' and then 'A': the one entry is the place of 'A'
C21_Witness ==
  /\ ret.op = "load" /\ Creates(ret.trace) # {}
  /\ _fields_ = <<Field(uint32_t, n_a), Field(block(IntArg(4)).val, n_A)>>
  /\ DOMAIN fastindex = {n_a} /\ fastindex[n_a] = 1
  /\ Aliases[2].name = n_A

\* C22: wherever the aliases exist the list has one view per declared field
\* in the order of the declaration: alias i is of field i's type and carries
\* field i's name, the instances made only to be measured are not in it,
\* and items() pairs the i-th declared name with alias i.
C22_AliasList ==
  /\ ~__object__.isNone =>
       /\ Created
       /\ Len(Aliases) = Len(_fields_)
       /\ \A i \in DOMAIN _fields_ :
            Aliases[i].type = _fields_[i].type /\ Aliases[i].name = _fields_[i].name
       /\ items = [i \in DOMAIN _fields_ |-> <<_fields_[i].name, Aliases[i]>>]
       /\ Root.init => initializedQ
  /\ __object__.isNone => ~Created /\ discarded = 0

\* the union of test_dynamic_union_rootchoose measured three instances and
\* holds three loaded aliases; items() gives 'a', 'b', 'c' with them
C22_Witness ==
  /\ ~__object__.isNone /\ discarded = 3 /\ Len(Aliases) = 3
  /\ \A i \in DOMAIN Aliases : Aliases[i].init
  /\ [i \in DOMAIN items |-> items[i][1]] = <<n_a, n_b, n_c>>
  /\ items[2][2].type = uint16_t

\* C23: serialize() and __deserialize_block__() never create: on an Empty
\* union they raise and leave it Empty; on a union with a root serialize()
\* gives what the root's serialize() gives and changes nothing, and
\* __deserialize_block__() puts the block into the root and touches neither
\* the aliases, the name table, the source nor the offset.
C23_RawAccess ==
  [][ret'.op \in {"serialize", "__deserialize_block__"} =>
       /\ Creates(ret'.trace) = {}
       /\ UNCHANGED <<__object__, fastindex, discarded, source, offset, log>>
       /\ ~Created => ret'.exc = "TypeError" /\ ~Created' /\ __object__'.isNone
       /\ (Created /\ ret'.op = "serialize") =>
            /\ UNCHANGED value
            /\ ret'.exc = TypeSerialize(Root).exc /\ ret'.data = TypeSerialize(Root).data
       /\ (Created /\ ret'.op = "__deserialize_block__") =>
            /\ ret'.exc = ""
            /\ value' = <<[Root EXCEPT !.init = TRUE, !.data = ret'.block]>>]_vars

\* a block of 'B's went into the root of a loaded union whose aliases still
\* hold the 'A's they were loaded with
C23_Witness ==
  /\ ret.op = "__deserialize_block__" /\ ret.exc = "" /\ ret.block = <<66, 66, 66, 66>>
  /\ Created /\ Root.data = <<66, 66, 66, 66>>
  /\ Len(Aliases) > 0 /\ \A i \in DOMAIN Aliases : Aliases[i].init /\ Aliases[i].data[1] = 65

\* C24: a union that declares no root and no field cannot be created: the
\* choice of the root fails on the maximum of nothing before anything is
\* assigned, so it has no root, no alias list, an empty name table and no
\* measured instance, and every load, alloc, size, blocksize and commit
\* raises that same error and does nothing else.
C24_UndeclaredStaysEmpty ==
  Undeclared =>
    /\ ~Created /\ __object__.isNone /\ DOMAIN fastindex = {} /\ discarded = 0
    /\ source \in Sources /\ log = <<>>
    /\ ret.op \in CreatingOps => ret.exc = "ValueError" /\ ret.trace = <<>>

\* a load() of such a union failed after an earlier call had moved it
C24_Witness ==
  /\ Undeclared /\ offset = MaxOffset
  /\ ret.op = "load" /\ ret.exc = "ValueError" /\ ~Created

====
